---- MODULE Spec2Model ----
(***************************************************************************)
(* Model of the x402 payment gate of x402-api (POST /sentiment): the       *)
(* Express handler, its module-level replay set processedPayments, the     *)
(* facilitator it awaits and the protected resource analyzeSentiment.      *)
(* Every request is one run of the async handler; the handler's awaits are *)
(* the points where other requests interleave.                             *)
(***************************************************************************)
EXTENDS Integers, Sequences, FiniteSets, TLC

\* ---------------------------------------------------------------- bounds
NumRequests == 2      \* requests the gate receives in one behaviour
Now == 1              \* the wall clock (unix seconds) while the requests are handled

Requests == 1..NumRequests

\* ---------------------------------------------- configuration (process.env)
Recipient == "0x501ab28fc3c7d29c2d12b243723eb5c5418b9de6"
Asset == "0x036CbD53842c5426634e7929541eC2318f3dCF7e"
PaymentAmount == 100000
Network == "base-sepolia"
Timeout == 300000

\* The single payment method the route advertises.
Method ==
  [ scheme |-> "eip3009",
    asset |-> Asset,
    recipient |-> Recipient,
    maximumAmount |-> PaymentAmount,
    minimumAmount |-> PaymentAmount,
    network |-> Network,
    description |-> "Sentiment Analysis API - Premium GPT-4 powered analysis",
    timeout |-> Timeout ]

\* Body of the 402 answer to a request without X-PAYMENT.
ChallengeBody == [ methods |-> << Method >> ]

\* ------------------------------------------------------- JavaScript values
\* A JSON object is a record; a property the object lacks is a field the
\* record lacks.  Reading a lacking property yields undefined.
Undefined == "undefined"

Has(obj, f) == f \in DOMAIN obj

Get(obj, f) == IF Has(obj, f) THEN obj[f] ELSE Undefined

\* fault injection: every value counts as truthy
TruthyAlways(v) == TRUE

\* JavaScript truthiness of a string-or-undefined value.
Truthy(v) == v # Undefined /\ v # ""

\* String.prototype.toLowerCase on the addresses the model uses.
ToLowerCase(s) ==
  CASE s = "0x501AB28FC3C7D29C2D12B243723EB5C5418B9DE6" -> Recipient
    [] s = "0x036CbD53842c5426634e7929541eC2318f3dCF7e" ->
         "0x036cbd53842c5426634e7929541ec2318f3dcf7e"
    [] OTHER -> s

\* ------------------------------------------------------- request universe
Nonces == { "0xn1", "0xn2" }

\* authorization of a well-formed payment for the advertised method; value,
\* validAfter and validBefore are decimal strings on the wire and are kept
\* here by their numeric value
Authorization(n) ==
  [ from |-> "0xpayer",
    to |-> Recipient,
    value |-> PaymentAmount,
    validAfter |-> 0,
    validBefore |-> Now + 1,
    nonce |-> n ]

\* SignedAuthorization as X402Client.createSignedAuthorization builds it
SignedAuthorization(auth) ==
  [ x402Version |-> 1,
    scheme |-> "eip3009",
    network |-> Network,
    payload |-> [ signature |-> "0xsig", authorization |-> auth ] ]

WellFormed(n) == SignedAuthorization(Authorization(n))

\* authorization without its nonce property
NoNonceAuthorization ==
  [ from |-> "0xpayer",
    to |-> Recipient,
    value |-> PaymentAmount,
    validAfter |-> 0,
    validBefore |-> Now + 1 ]

\* Decoded payloads a client can put in X-PAYMENT: the well-formed ones and
\* payloads that each deviate from a well-formed one in a single place.
Payloads ==
  { WellFormed(n) : n \in Nonces }
  \cup { SignedAuthorization([Authorization("0xn1") EXCEPT !.to = "0x501AB28FC3C7D29C2D12B243723EB5C5418B9DE6"]),
         SignedAuthorization([Authorization("0xn1") EXCEPT !.to = "0xattacker"]),
         SignedAuthorization([Authorization("0xn1") EXCEPT !.value = PaymentAmount - 50000]),
         SignedAuthorization([Authorization("0xn1") EXCEPT !.value = PaymentAmount + 50000]),
         SignedAuthorization([Authorization("0xn1") EXCEPT !.validBefore = Now]),
         SignedAuthorization(NoNonceAuthorization),
         [WellFormed("0xn1") EXCEPT !.network = "ethereum"],
         [WellFormed("0xn1") EXCEPT !.x402Version = 2],
         [WellFormed("0xn1") EXCEPT !.payload = [ authorization |-> Authorization("0xn1") ]],
         [WellFormed("0xn1") EXCEPT !.payload = [ signature |-> "0xsig" ]],
         [ x402Version |-> 1, scheme |-> "eip3009", network |-> Network ] }

\* JSON.stringify(payload): the header text X402Client sends
JsonText(p) == [ kind |-> "json", value |-> p ]

\* Buffer.from(JSON.stringify(payload)).toString('base64'): the header text
\* X402ServerClient and X402BrowserClient send.  The text is kept by what
\* it encodes; it is not JSON text (it begins "eyJ").
Base64Text(p) == [ kind |-> "base64", value |-> p ]

\* Values of the X-PAYMENT header: absent, text that is not JSON, the JSON
\* text null, the JSON text of a payload, or the base64 text of a payload.
Headers ==
  { [ kind |-> "absent" ], [ kind |-> "garbage" ], [ kind |-> "null" ] }
  \cup { JsonText(p) : p \in Payloads }
  \cup { Base64Text(WellFormed("0xn1")) }

\* req.body.text: present or missing
Texts == { "I love this product!", "" }

\* What the facilitator can answer (it is outside the repository): a non-2xx
\* status with a text, or a 2xx status with a JSON body.
\* The transaction hash of the settlement made for request r.
TxHash(r) == "0xtx" \o ToString(r)
FacilitatorStatuses == { 400, 503 }
FacilitatorResults(r) ==
  { [ transactionHash |-> TxHash(r) ], [ error |-> "no hash" ] }
ErrorTexts == { "insufficient funds" }

\* What analyzeSentiment can return for a text.
SentimentResults(text) ==
  { [ text |-> text, sentiment |-> s, confidence |-> 1, explanation |-> "because" ] :
      s \in { "positive" } }

\* ------------------------------------------------------ payment validator
\* Transaction hashes are sequences of characters: a prefix, a run of one
\* character, a suffix.
MinHashLength == 10
MaxFill == 9

HexDigits ==
  { "0", "1", "2", "3", "4", "5", "6", "7", "8", "9",
    "a", "b", "c", "d", "e", "f", "A", "B", "C", "D", "E", "F" }

Repeat(c, n) == [ i \in 1..n |-> c ]

TransactionHashes ==
  { p \o Repeat(c, n) \o s :
      p \in { << >>, << "0", "x" >>, << "0", "X" >>, << "t", "x" >> },
      c \in { "a", "F", "7", "g", "-" },
      n \in 0..MaxFill,
      s \in { << >>, << "z" >> } }

\* transactionHash.startsWith('0x')
StartsWith0x(h) == Len(h) >= 2 /\ h[1] = "0" /\ h[2] = "x"

\* /^0x[0-9a-fA-F]+$/.test(transactionHash)
IsValidHex(h) ==
  /\ Len(h) >= 3
  /\ h[1] = "0"
  /\ h[2] = "x"
  /\ \A i \in 3..Len(h) : h[i] \in HexDigits

validatePaymentFallback(h) ==
  IF Len(h) = 0 \/ Len(h) < MinHashLength
    THEN FALSE
    ELSE IF StartsWith0x(h) /\ ~IsValidHex(h)
           THEN FALSE
           ELSE TRUE

\* What fetch(`${facilitatorUrl}/verify`) and response.json() can do. The
\* values of a reply body are kept by their JSON text: true, false, "true".
VerifyStatuses == { 200, 400, 404, 500, 501 }
VerifyBodies ==
  { [ valid |-> "true" ], [ valid |-> "false", reason |-> "unknown transaction" ],
    [ valid |-> "\"true\"" ], [ reason |-> "no verdict" ] }
VerifyReplies ==
  { [ kind |-> "throws", cause |-> c ] : c \in { "network error", "malformed JSON" } }
    \cup { [ kind |-> "response", status |-> st, body |-> b ] :
             st \in VerifyStatuses, b \in VerifyBodies }

\* response.ok
Ok(status) == status \in 200..299

\* the backends one call of validatePayment consults after the facilitator
ConsultsFallback(reply) ==
  \/ reply.kind = "throws"
  \/ reply.kind = "response" /\ ~Ok(reply.status) /\ reply.status \in { 404, 501 }

validatePayment(h, reply) ==
  IF reply.kind = "throws"
    THEN validatePaymentFallback(h)
    ELSE IF ~Ok(reply.status)
           THEN IF reply.status = 404 \/ reply.status = 501
                  THEN validatePaymentFallback(h)
                  ELSE FALSE
           ELSE Get(reply.body, "valid") = "true"

\* Receipts provider.getTransactionReceipt can return for the hash.
MaxLogs == 2
TransferTopic == "Transfer(address,address,uint256)"
ExpectedRecipients == { Recipient, "0x501AB28FC3C7D29C2D12B243723EB5C5418B9DE6" }

Logs ==
  { [ topic0 |-> t, address |-> a, to |-> to, amount |-> v ] :
      t \in { TransferTopic, "Approval(address,address,uint256)" },
      a \in { Asset, ToLowerCase(Asset), "0xothertoken" },
      to \in { Recipient, "0xsomeoneelse" },
      v \in { PaymentAmount - 1, PaymentAmount, PaymentAmount + 1 } }

LogLists == UNION { [ 1..n -> Logs ] : n \in 0..MaxLogs }

RpcOutcomes ==
  { [ kind |-> "throws" ], [ kind |-> "null" ] }
    \cup { [ kind |-> "receipt", status |-> st, logs |-> ls ] :
             st \in { 0, 1 }, ls \in LogLists }

\* ethers.getAddress on the address of a topic: the checksum spelling, kept
\* here as the upper-case spelling of the one address whose case matters.
GetAddress(a) ==
  IF a = Recipient THEN "0x501AB28FC3C7D29C2D12B243723EB5C5418B9DE6" ELSE a

\* receipt.logs.filter(...)
RECURSIVE TransferLogs(_, _)
TransferLogs(logs, tokenAddress) ==
  IF logs = << >>
    THEN << >>
    ELSE IF /\ Head(logs).topic0 = TransferTopic
            /\ ToLowerCase(Head(logs).address) = ToLowerCase(tokenAddress)
           THEN << Head(logs) >> \o TransferLogs(Tail(logs), tokenAddress)
           ELSE TransferLogs(Tail(logs), tokenAddress)

\* fault injection: the amount test is strict
MatchesExpectationsStrictly(log, expectedRecipient, expectedAmount) ==
  /\ ToLowerCase(GetAddress(log.to)) = ToLowerCase(expectedRecipient)
  /\ log.amount > expectedAmount

\* the test of the loop body
MatchesExpectations(log, expectedRecipient, expectedAmount) ==
  /\ ToLowerCase(GetAddress(log.to)) = ToLowerCase(expectedRecipient)
  /\ log.amount >= expectedAmount

\* for (const log of transferLogs) { ... return true } ... return false
RECURSIVE AnyMatches(_, _, _)
AnyMatches(transferLogs, expectedRecipient, expectedAmount) ==
  IF transferLogs = << >>
    THEN FALSE
    ELSE IF MatchesExpectations(Head(transferLogs), expectedRecipient, expectedAmount)
           THEN TRUE
           ELSE AnyMatches(Tail(transferLogs), expectedRecipient, expectedAmount)

validatePaymentOnChain(outcome, expectedRecipient, expectedAmount, tokenAddress) ==
  IF outcome.kind = "throws"
    THEN FALSE
    ELSE IF outcome.kind = "null"
           THEN FALSE
           ELSE IF outcome.status # 1
                  THEN FALSE
                  ELSE IF Len(TransferLogs(outcome.logs, tokenAddress)) = 0
                         THEN FALSE
                         ELSE AnyMatches(TransferLogs(outcome.logs, tokenAddress),
                                         expectedRecipient, expectedAmount)

\* the validator before any call
NotCalled == [ pc |-> "idle" ]

\* ------------------------------------------------------------ the clients
Clients == { "X402Client", "X402ServerClient", "X402BrowserClient" }
Wallet == "0xpayer"
DefaultValiditySeconds == 300
Url == "https://api.example.com/sentiment"

\* options.headers is a plain object or a Headers instance
HeadersInits ==
  { [ kind |-> "object", names |-> {} ],
    [ kind |-> "object", names |-> { "Content-Type" } ],
    [ kind |-> "Headers", names |-> { "Content-Type" } ] }

\* { ...options.headers }: the own enumerable properties, which a Headers
\* instance has none of
Spread(headers) == IF headers.kind = "object" THEN headers.names ELSE {}

\* options of a call client.fetch(url, options)
FetchOptions ==
  { [ method |-> "POST", headers |-> h, body |-> "{\"text\":\"hi\"}" ] :
      h \in HeadersInits }

\* network names a challenge can carry: those of getChainId and one more
Networks ==
  { "base", "base-sepolia", "ethereum", "sepolia", "polygon", "arbitrum",
    "optimism", "solana" }

\* timeouts in milliseconds a challenge can carry
Timeouts == { 1000, 1500, Timeout, 3600000 }

\* payment methods in the field names of the methods[] format
MethodOn(network) == [ Method EXCEPT !.network = network ]
MethodFor(timeout) == [ Method EXCEPT !.timeout = timeout ]
MethodWithoutTimeout ==
  [ f \in DOMAIN Method \ { "timeout" } |-> Method[f] ]

\* the payment method of ChallengeBody in the field names of the accepts[]
\* format
AcceptsMethod ==
  [ scheme |-> Method.scheme,
    asset |-> Method.asset,
    payTo |-> Method.recipient,
    maxAmountRequired |-> Method.maximumAmount,
    network |-> Method.network,
    maxTimeoutSeconds |-> Method.timeout \div 1000 ]

\* a body that is not JSON
NotJson == [ raw |-> "<html>" ]
Parses(body) == ~Has(body, "raw")

\* Bodies of a 402 response.
Challenges ==
  { [ methods |-> << MethodOn(n) >> ] : n \in Networks }
    \cup { [ methods |-> << MethodFor(t) >> ] : t \in Timeouts }
    \cup { [ methods |-> << MethodWithoutTimeout >> ],
           [ methods |-> << MethodOn("solana"), MethodOn("base") >> ],
           [ accepts |-> << AcceptsMethod >> ],
           [ methods |-> << >> ],
           [ error |-> "Payment settlement failed" ],
           NotJson }

\* Bodies of a 2xx response.
SuccessBodies ==
  { [ sentiment |-> "positive", payment |-> [ transactionHash |-> "0xtx1" ] ],
    [ sentiment |-> "positive", transactionHash |-> "0xtx2" ],
    [ sentiment |-> "positive", _transaction |-> [ transactionHash |-> "0xtx3" ] ],
    [ sentiment |-> "positive" ],
    NotJson }

\* Responses the server can give the client.
ServerResponses ==
  { [ status |-> 402, body |-> b ] : b \in Challenges }
    \cup { [ status |-> 200, body |-> b ] : b \in SuccessBodies }
    \cup { [ status |-> 400, body |-> [ error |-> "Invalid payment format" ] ],
           [ status |-> 500, body |-> NotJson ] }

\* a || b on two properties of an object whose values are never falsy
Either(obj, f, g) == IF Has(obj, f) THEN obj[f] ELSE Get(obj, g)

\* reading a property of undefined throws
TypeError == [ threw |-> "TypeError" ]
Threw(v) == Has(v, "threw")

\* The challenge method each client reads from a parsed 402 body. Where the
\* body gives none, the first read of a property of the method throws (in
\* the log line of X402Client and X402BrowserClient, in the normalisation of
\* X402ServerClient).
FirstMethod(impl, body) ==
  IF impl = "X402ServerClient"
    THEN IF Has(body, "accepts") /\ Len(body.accepts) > 0
           THEN body.accepts[1]
           ELSE IF Has(body, "methods") /\ Len(body.methods) > 0
                  THEN body.methods[1]
                  ELSE TypeError
    ELSE IF Has(body, "methods") /\ Len(body.methods) > 0
           THEN body.methods[1]
           ELSE TypeError

\* X402ServerClient's normalisation of the two field-name formats; a
\* property whose value is undefined is a field the record lacks
Normalize(raw) ==
  [ f \in { "maximumAmount", "recipient", "scheme", "network", "asset" }
            \cup ( IF Has(raw, "timeout") \/ Has(raw, "maxTimeoutSeconds")
                     THEN { "timeout" } ELSE {} ) |->
      CASE f = "maximumAmount" -> Either(raw, "maximumAmount", "maxAmountRequired")
        [] f = "recipient" -> Either(raw, "recipient", "payTo")
        [] f = "timeout" -> IF Has(raw, "timeout")
                              THEN raw.timeout
                              ELSE raw.maxTimeoutSeconds * 1000
        [] OTHER -> Get(raw, f) ]

\* the method a client signs for
ChosenMethod(impl, body) ==
  IF impl = "X402ServerClient"
    THEN Normalize(FirstMethod(impl, body))
    ELSE FirstMethod(impl, body)

\* A JavaScript number is kept in thousandths, so that x / 1000 is exact.
Number(n) == n * 1000
IsInteger(x) == x % 1000 = 0

\* Number.prototype.toString of a number kept in thousandths
NumberToString(x) ==
  IF IsInteger(x)
    THEN ToString(x \div 1000)
    ELSE ToString(x \div 1000) \o "." \o
           ( IF (x % 1000) % 100 = 0
               THEN ToString((x % 1000) \div 100)
               ELSE IF (x % 1000) % 10 = 0
                      THEN (IF x % 1000 < 100 THEN "0" ELSE "")
                             \o ToString((x % 1000) \div 10)
                      ELSE (IF x % 1000 < 10 THEN "00"
                              ELSE IF x % 1000 < 100 THEN "0" ELSE "")
                             \o ToString(x % 1000) )

\* Math.floor(Date.now() / 1000)
ValidAfter == Number(Now)

\* validAfter + (method.timeout ? method.timeout / 1000 : 300)
ValidBefore(method) ==
  IF Has(method, "timeout") /\ method.timeout # 0
    THEN ValidAfter + method.timeout
    ELSE ValidAfter + Number(DefaultValiditySeconds)

\* X402Client.getChainId
chainIds ==
  [ n \in Networks \ { "solana" } |->
      CASE n = "base" -> 8453
        [] n = "base-sepolia" -> 84532
        [] n = "ethereum" -> 1
        [] n = "sepolia" -> 11155111
        [] n = "polygon" -> 137
        [] n = "arbitrum" -> 42161
        [] n = "optimism" -> 10 ]

getChainId(network) ==
  IF network \in DOMAIN chainIds THEN chainIds[network] ELSE 84532

\* the chainId of the EIP-712 domain each client signs under
ChainId(impl, network) ==
  IF impl = "X402Client"
    THEN getChainId(network)
    ELSE IF network = "base" THEN 8453 ELSE 84532

Domain(impl, method) ==
  [ name |-> "USDC",
    version |-> "2",
    chainId |-> ChainId(impl, Get(method, "network")),
    verifyingContract |-> Get(method, "asset") ]

\* the message to sign
Message(method, nonce) ==
  [ from |-> Wallet,
    to |-> Get(method, "recipient"),
    value |-> Get(method, "maximumAmount"),
    validAfter |-> ValidAfter,
    validBefore |-> ValidBefore(method),
    nonce |-> nonce ]

\* signTypedData encodes uint256 fields and throws on a number that is not
\* an integer
Signable(message) == IsInteger(message.validAfter) /\ IsInteger(message.validBefore)

\* what one signature covers
Signed(impl, method, nonce) ==
  [ domain |-> Domain(impl, method), message |-> Message(method, nonce) ]

\* the signature string of a signed domain and message
Signature(signed) == << "sig", signed >>

\* the payload the client emits for a method and a fresh nonce:
\* X402Client and X402ServerClient put signature and authorization under
\* payload, X402BrowserClient puts the message fields and v, r, s there
SignedFor(impl, method, nonce) ==
  [ x402Version |-> 1,
    scheme |-> Get(method, "scheme"),
    network |-> Get(method, "network"),
    payload |->
      IF impl = "X402BrowserClient"
        THEN [ from |-> Wallet,
               to |-> Get(method, "recipient"),
               value |-> Get(method, "maximumAmount"),
               validAfter |-> ValidAfter,
               validBefore |-> ValidBefore(method),
               nonce |-> nonce,
               vrs |-> Signature(Signed(impl, method, nonce)) ]
        ELSE [ signature |-> Signature(Signed(impl, method, nonce)),
               authorization |-> [ from |-> Wallet,
                                   to |-> Get(method, "recipient"),
                                   value |-> Get(method, "maximumAmount"),
                                   validAfter |-> NumberToString(ValidAfter),
                                   validBefore |-> NumberToString(ValidBefore(method)),
                                   nonce |-> nonce ] ] ]

\* the X-PAYMENT header text each client sends
PaymentHeader(impl, signed) ==
  IF impl = "X402Client" THEN JsonText(signed) ELSE Base64Text(signed)

\* the client before any call, and its transaction record before a payment
NoCall == [ pc |-> "idle" ]
Null == [ null |-> TRUE ]

\* what X402Client keeps of a 2xx answer to the paid request
LastTransaction(body, method) ==
  IF Has(body, "payment") /\ Has(body.payment, "transactionHash")
    THEN [ success |-> TRUE,
           transactionHash |-> body.payment.transactionHash,
           network |-> Get(method, "network") ]
    ELSE Null

\* what X402ServerClient keeps of a 2xx answer to the paid request
LastTransactionHash(body) ==
  IF ~Parses(body)
    THEN Null
    ELSE IF Has(body, "transactionHash")
           THEN [ hash |-> body.transactionHash ]
           ELSE IF Has(body, "txHash")
                  THEN [ hash |-> body.txHash ]
                  ELSE IF Has(body, "tx") THEN [ hash |-> body.tx ] ELSE Null

\* ------------------------------------------------ a shared client object
NumCalls == 2
Calls == 1..NumCalls

\* ethers.randomBytes(32): the values a call can draw
RandomNonces == { "0xr" \o ToString(i) : i \in 1..NumCalls }

\* fault injection: a draw can repeat an earlier one
AnyNonce(issued) == RandomNonces

\* A draw of 32 random bytes does not repeat an earlier draw.
FreshNonces(issued) == RandomNonces \ issued

\* no client object yet
NoClient == [ impl |-> "none" ]

\* the locals of a call of fetch that has not started
NotStarted == [ pc |-> "idle" ]

\* The answers of the server to the k-th request of call c.
AnswersTo(c, k) ==
  { [ status |-> 402, body |-> ChallengeBody, to |-> << c, k >> ],
    [ status |-> 500, body |-> NotJson, to |-> << c, k >> ],
    [ status |-> 200, to |-> << c, k >>,
      body |-> [ sentiment |-> "positive",
                 transactionHash |-> TxHash(c),
                 payment |-> [ transactionHash |-> TxHash(c) ] ] ] }

\* ------------------------------------------------------ the tool registry
MaxRegistrations == 3

\* ToolConfig values.  cost is in cents and is an optional property; execute
\* names the body of the config's execute function: "paidAPI" is the one
\* registerPaidAPI builds, "paidCustom" a custom paid tool that calls
\* x402Client.fetch (sentiment_analysis), "paidPlain" a custom paid tool that
\* calls the global fetch (research_company), "free" one that needs no client.
GenerateImage ==
  [ name |-> "generate_image", isPaid |-> TRUE, cost |-> 50, execute |-> "paidAPI" ]
SentimentAnalysis ==
  [ name |-> "sentiment_analysis", isPaid |-> TRUE, cost |-> 10,
    execute |-> "paidCustom" ]
ResearchCompany ==
  [ name |-> "research_company", isPaid |-> TRUE, cost |-> 25,
    execute |-> "paidPlain" ]
GetWeather == [ name |-> "get_weather", isPaid |-> FALSE, execute |-> "free" ]

\* the registrations initializePredefinedTools makes, in its order, one tool
\* for each kind of execute function
PredefinedTools == << GenerateImage, SentimentAnalysis, ResearchCompany, GetWeather >>

\* the configs registerTool is called with: the predefined ones, a free tool
\* under the name of a paid one, and a paid tool that declares no cost
ToolConfigs ==
  { GenerateImage, ResearchCompany, GetWeather,
    [ name |-> "generate_image", isPaid |-> FALSE, cost |-> 50, execute |-> "free" ],
    [ name |-> "research_company", isPaid |-> TRUE, execute |-> "paidPlain" ],
    [ name |-> "get_weather", isPaid |-> TRUE, cost |-> 5, execute |-> "paidAPI" ] }

\* the names tools are asked for by: the registered ones and one nobody registers
AskedNames ==
  { "generate_image", "sentiment_analysis", "research_company", "get_weather",
    "unknown_tool" }

\* what Map.prototype.get returns for a missing key
NoTool == [ undefined |-> TRUE ]

\* The Map<string, ToolConfig> as its entries in insertion order.
MapHas(map, name) == \E i \in 1..Len(map) : map[i].name = name

\* fault injection: an entry is added even when the key is present
MapPush(map, config) == Append(map, config)

\* Map.prototype.set(config.name, config)
MapSet(map, config) ==
  IF MapHas(map, config.name)
    THEN [ map EXCEPT
             ![CHOOSE i \in 1..Len(map) : map[i].name = config.name] = config ]
    ELSE Append(map, config)

\* Map.prototype.get(name)
MapGet(map, name) ==
  IF MapHas(map, name)
    THEN map[CHOOSE i \in 1..Len(map) :
               map[i].name = name /\ \A j \in 1..(i - 1) : map[j].name # name]
    ELSE NoTool

\* ToolRegistry.getTool
getTool(map, name) == MapGet(map, name)

\* ToolRegistry.count
count(map) == Len(map)

\* tool?.isPaid ? tool.cost || 0 : 0
CostOf(tool) ==
  IF tool # NoTool /\ tool.isPaid /\ Has(tool, "cost") THEN tool.cost ELSE 0

\* ToolRegistry.calculateCost: the reduce over toolNames, left to right
RECURSIVE calculateCost(_, _)
calculateCost(map, toolNames) ==
  IF toolNames = << >>
    THEN 0
    ELSE calculateCost(map, SubSeq(toolNames, 1, Len(toolNames) - 1))
           + CostOf(MapGet(map, toolNames[Len(toolNames)]))

\* the arguments of calculateCost
NameLists ==
  { << >> } \cup { << n >> : n \in AskedNames }
    \cup { << n, m >> : n \in AskedNames, m \in AskedNames }

\* the parameters a tool is called with, by what tool.schema.parse makes of them
ToolParams == { "valid", "invalid" }

\* the error a rejected or throwing call ends with
ToolError(message) == [ threw |-> message ]

\* what the execute function does up to its first await
CallsX402Fetch == [ calls |-> "x402Client.fetch" ]
CallsFetch == [ calls |-> "fetch" ]

\* fault injection: execute without its check of the client
ExecuteUnguarded(tool, x402Client) ==
  IF tool.execute \in { "paidAPI", "paidCustom" } /\ x402Client # Null
    THEN CallsX402Fetch
    ELSE CallsFetch

\* tool.execute(validatedParams, x402Client), up to its first await
Execute(tool, x402Client) ==
  CASE tool.execute = "paidAPI" ->
         IF x402Client = Null
           THEN ToolError("x402 client not initialized")
           ELSE CallsX402Fetch
    [] tool.execute = "paidCustom" ->
         IF x402Client = Null
           THEN ToolError("x402 client required")
           ELSE CallsX402Fetch
    [] tool.execute = "paidPlain" ->
         IF x402Client = Null
           THEN ToolError("x402 client required")
           ELSE CallsFetch
    [] OTHER -> CallsFetch

\* fault injection: executeTool without the schema check
executeToolUnvalidated(tool, params, x402Client) ==
  IF tool = NoTool
    THEN ToolError("Tool not found")
    ELSE IF tool.isPaid /\ x402Client # Null
           THEN Execute(tool, x402Client)
           ELSE Execute(tool, Null)

\* ToolRegistry.executeTool, up to the first await of the tool's execute
executeTool(tool, params, x402Client) ==
  IF tool = NoTool
    THEN ToolError("Tool not found")
    ELSE IF params = "invalid"
           THEN ToolError("ZodError")
           ELSE IF tool.isPaid /\ x402Client # Null
                  THEN Execute(tool, x402Client)
                  ELSE Execute(tool, Null)

\* a call of a tool that has not started
IdleCall == [ pc |-> "idle" ]

\* new ToolRegistry(): no tools, no client; registered lists the configs
\* registerTool was called with since the last clear
EmptyRegistry ==
  [ tools |-> << >>, registered |-> << >>, x402Client |-> Null,
    calls |-> [ k \in Calls |-> IdleCall ] ]

\* ------------------------------------------------------------------ state
VARIABLES
  pc,                 \* where each request's handler stands
  header,             \* the X-PAYMENT header of each request
  text,               \* the handler's local text, read from req.body
  processedPayments,  \* the module-level Set of used nonces
  facilitatorStatus,  \* facilitatorResponse.status, once fetch resolved
  transactionHash,    \* the handler's local transactionHash
  response,           \* the response sent, NoResponse before
  facilitatorCalls,   \* fetch(facilitatorUrl) calls made for the request
  resourceCalls,      \* analyzeSentiment calls made for the request
  validator,          \* one call of the payment validator: position, arguments, result
  client,             \* one call of client.fetch: position, requests sent, outcome
  session,            \* one client object shared by concurrent calls of fetch
  registry            \* the tool registry, its client and the tool calls in flight

gateVars == << pc, header, text, processedPayments, facilitatorStatus, transactionHash,
               response, facilitatorCalls, resourceCalls >>

vars == << gateVars, validator, client, session, registry >>

NoHeader == [ kind |-> "absent" ]
NoResponse == [ status |-> 0 ]

Reply(status, body) == [ status |-> status, body |-> body ]

\* -------------------------------------------------- the handler's decisions
\* JSON.parse(paymentHeader) returns instead of throwing
JsonParses(h) == h.kind \in { "json", "null" }

\* the check `!signedAuth.payload?.signature || !signedAuth.payload?.authorization`
\* does not reject
HasRequiredFields(signedAuth) ==
  /\ Has(signedAuth, "payload")
  /\ Truthy(Get(signedAuth.payload, "signature"))
  /\ Has(signedAuth.payload, "authorization")

\* const authNonce = signedAuth.payload.authorization.nonce
AuthNonce(signedAuth) == Get(signedAuth.payload.authorization, "nonce")

\* fault injection: the replay check reads the nonce at the top level of the
\* signed authorization, where there is none
AlreadyProcessedTopLevelNonce(store, signedAuth) == Get(signedAuth, "nonce") \in store

\* processedPayments.has(authNonce)
AlreadyProcessed(store, signedAuth) == AuthNonce(signedAuth) \in store

\* The response the handler sends before it reaches the facilitator call,
\* NoResponse when it reaches the call.
EarlyResponse(h, store) ==
  IF h.kind = "absent"
    THEN Reply(402, ChallengeBody)
  ELSE IF ~JsonParses(h)
    THEN Reply(400, [ error |-> "Invalid payment format",
                      message |-> << "X-PAYMENT header must contain valid JSON signed authorization" >> ])
  ELSE IF h.kind = "null"
    THEN Reply(500, [ error |-> "Internal server error",
                      message |-> << "Cannot read properties of null" >> ])
  ELSE IF ~HasRequiredFields(h.value)
    THEN Reply(400, [ error |-> "Invalid authorization",
                      message |-> << "Authorization missing required fields" >> ])
  ELSE IF AlreadyProcessed(store, h.value)
    THEN Reply(400, [ error |-> "Payment already used",
                      message |-> << "This payment authorization has already been processed" >> ])
  ELSE NoResponse

\* fault injection: the facilitator is called before the replay check
SubmitsBeforeReplayCheck(h, store) == h.kind = "json" /\ HasRequiredFields(h.value)

\* The handler issues fetch(facilitatorUrl, ...) for this header.
SubmitsToFacilitator(h, store) == EarlyResponse(h, store) = NoResponse

\* ---------------------------------------------------------------- actions
Init ==
  /\ pc = [ r \in Requests |-> "idle" ]
  /\ header = [ r \in Requests |-> NoHeader ]
  /\ text = [ r \in Requests |-> Undefined ]
  /\ processedPayments = {}
  /\ facilitatorStatus = [ r \in Requests |-> 0 ]
  /\ transactionHash = [ r \in Requests |-> Undefined ]
  /\ response = [ r \in Requests |-> NoResponse ]
  /\ facilitatorCalls = [ r \in Requests |-> 0 ]
  /\ resourceCalls = [ r \in Requests |-> 0 ]
  /\ validator = NotCalled
  /\ client = NoCall
  /\ session = NoClient
  /\ registry = EmptyRegistry

\* fault injection: the response is sent and the handler goes on
FinishAndStay(r, reply) ==
  /\ response' = [ response EXCEPT ![r] = reply ]
  /\ pc' = pc

\* res.status(...).json(...) and the return that follows it
Finish(r, reply) ==
  /\ response' = [ response EXCEPT ![r] = reply ]
  /\ pc' = [ pc EXCEPT ![r] = "done" ]

\* A request arrives and the handler runs up to its first await: the header
\* checks, the replay check and the call of fetch(facilitatorUrl).  Requests
\* are numbered in the order they arrive.
Receive(r, h) ==
  /\ pc[r] = "idle"
  /\ \A q \in Requests : q < r => pc[q] # "idle"
  /\ header' = [ header EXCEPT ![r] = h ]
  /\ LET early == EarlyResponse(h, processedPayments) IN
       /\ response' = [ response EXCEPT ![r] = early ]
       /\ pc' = [ pc EXCEPT ![r] = IF early = NoResponse THEN "awaitFacilitator" ELSE "done" ]
  /\ facilitatorCalls' =
       [ facilitatorCalls EXCEPT ![r] =
           IF SubmitsToFacilitator(h, processedPayments) THEN @ + 1 ELSE @ ]
  /\ UNCHANGED << text, processedPayments, facilitatorStatus, transactionHash,
                  resourceCalls, validator, client, session, registry >>

\* The handler has two awaits on the facilitator, fetch(...) and the reading
\* of the reply's body (text() or json()); it touches nothing shared between
\* them, so each of the next four actions takes both in one step.

\* the reply of the inner catch
FacilitatorUnreachable(msg) ==
  Reply(502, [ error |-> "Facilitator communication failed",
               message |-> << "Could not reach payment facilitator: ", msg >> ])

\* fetch(...) rejects (network error)
FetchRejects(r) ==
  /\ pc[r] = "awaitFacilitator"
  /\ Finish(r, FacilitatorUnreachable("fetch failed"))
  /\ UNCHANGED << header, text, processedPayments, facilitatorStatus, transactionHash,
                  facilitatorCalls, resourceCalls, validator, client, session, registry >>

\* the facilitator answers with a non-2xx status and the text errorText
FacilitatorRefuses(r, status, errorText) ==
  /\ pc[r] = "awaitFacilitator"
  /\ facilitatorStatus' = [ facilitatorStatus EXCEPT ![r] = status ]
  /\ Finish(r, Reply(402, [ error |-> "Payment settlement failed",
                            message |-> << "Facilitator error: ", errorText >> ]))
  /\ UNCHANGED << header, text, processedPayments, transactionHash,
                  facilitatorCalls, resourceCalls, validator, client, session, registry >>

\* the facilitator answers 2xx with a body that is not JSON: json() rejects
FacilitatorMalformed(r) ==
  /\ pc[r] = "awaitFacilitator"
  /\ facilitatorStatus' = [ facilitatorStatus EXCEPT ![r] = 200 ]
  /\ Finish(r, FacilitatorUnreachable("Unexpected token"))
  /\ UNCHANGED << header, text, processedPayments, transactionHash,
                  facilitatorCalls, resourceCalls, validator, client, session, registry >>

\* fault injection: the store keeps the latest nonce only
MarkOnlyLatest(store, signedAuth) == { AuthNonce(signedAuth) }

\* processedPayments.add(authNonce)
MarkProcessed(store, signedAuth) == store \cup { AuthNonce(signedAuth) }

\* The facilitator answers 2xx with the JSON body result: the handler runs
\* from the assignment of transactionHash to its next await or return; t is
\* req.body.text, which the handler reads here for the first time.
FacilitatorAnswers(r, result, t) ==
  /\ pc[r] = "awaitFacilitator"
  /\ facilitatorStatus' = [ facilitatorStatus EXCEPT ![r] = 200 ]
  /\ LET hash == Get(result, "transactionHash") IN
       /\ transactionHash' = [ transactionHash EXCEPT ![r] = hash ]
       /\ IF ~Truthy(hash)
            THEN /\ Finish(r, Reply(402, [ error |-> "Payment settlement failed",
                                           message |-> << "Facilitator did not return transaction hash" >> ]))
                 /\ UNCHANGED << processedPayments, resourceCalls, text >>
            ELSE /\ processedPayments' = MarkProcessed(processedPayments, header[r].value)
                 /\ text' = [ text EXCEPT ![r] = t ]
                 /\ IF ~Truthy(t)
                      THEN /\ Finish(r, Reply(400, [ error |-> "Missing required field: text" ]))
                           /\ UNCHANGED resourceCalls
                      ELSE /\ resourceCalls' = [ resourceCalls EXCEPT ![r] = @ + 1 ]
                           /\ pc' = [ pc EXCEPT ![r] = "awaitSentiment" ]
                           /\ UNCHANGED response
  /\ UNCHANGED << header, facilitatorCalls, validator, client, session, registry >>

\* fault injection: the 200 body carries the payment block without the
\* resource's result
ConfirmationWithoutResult(result, hash) ==
  [ payment |-> [ transactionHash |-> hash, status |-> "confirmed", network |-> Network ] ]

\* the 200 body: the resource's result with the payment confirmation
Confirmation(result, hash) ==
  [ text |-> result.text,
    sentiment |-> result.sentiment,
    confidence |-> result.confidence,
    explanation |-> result.explanation,
    payment |-> [ transactionHash |-> hash, status |-> "confirmed", network |-> Network ] ]

\* await analyzeSentiment(...) resolves
SentimentResolves(r, result) ==
  /\ pc[r] = "awaitSentiment"
  /\ Finish(r, Reply(200, Confirmation(result, transactionHash[r])))
  /\ UNCHANGED << header, text, processedPayments, facilitatorStatus, transactionHash,
                  facilitatorCalls, resourceCalls, validator, client, session, registry >>

\* await analyzeSentiment(...) rejects: the outer catch answers
SentimentRejects(r) ==
  /\ pc[r] = "awaitSentiment"
  /\ Finish(r, Reply(500, [ error |-> "Internal server error",
                            message |-> << "Sentiment analysis failed: ", "OpenAI API error" >> ]))
  /\ UNCHANGED << header, text, processedPayments, facilitatorStatus, transactionHash,
                  facilitatorCalls, resourceCalls, validator, client, session, registry >>

Next ==
  \/ \E r \in Requests, h \in Headers : Receive(r, h)
  \/ \E r \in Requests : FetchRejects(r)
  \/ \E r \in Requests, status \in FacilitatorStatuses, errorText \in ErrorTexts :
       FacilitatorRefuses(r, status, errorText)
  \/ \E r \in Requests : FacilitatorMalformed(r)
  \/ \E r \in Requests, t \in Texts : \E result \in FacilitatorResults(r) :
       FacilitatorAnswers(r, result, t)
  \/ \E r \in Requests : \E result \in SentimentResults(text[r]) : SentimentResolves(r, result)
  \/ \E r \in Requests : SentimentRejects(r)

Spec == Init /\ [][Next]_vars


\* --------------------------------------------------- validator processes
\* validatePayment is called and awaits fetch(`${facilitatorUrl}/verify`).
CallValidatePayment(h) ==
  /\ validator = NotCalled
  /\ validator' = [ pc |-> "awaitVerify", fn |-> "validatePayment",
                    transactionHash |-> h, consulted |-> { "facilitator" } ]
  /\ UNCHANGED << gateVars, client, session, registry >>

\* The facilitator call resolves or throws, and validatePayment returns.
VerifyReturns(reply) ==
  /\ validator.pc = "awaitVerify"
  /\ validator' =
       [ pc |-> "done", fn |-> "validatePayment",
         transactionHash |-> validator.transactionHash,
         reply |-> reply,
         consulted |-> IF ConsultsFallback(reply)
                         THEN { "facilitator", "format" }
                         ELSE { "facilitator" },
         result |-> validatePayment(validator.transactionHash, reply) ]
  /\ UNCHANGED << gateVars, client, session, registry >>

\* validatePaymentOnChain is called and returns on what the RPC node gave.
CallValidatePaymentOnChain(outcome, expectedRecipient) ==
  /\ validator = NotCalled
  /\ validator' =
       [ pc |-> "done", fn |-> "validatePaymentOnChain",
         outcome |-> outcome,
         expectedRecipient |-> expectedRecipient,
         consulted |-> { "chain" },
         result |-> validatePaymentOnChain(outcome, expectedRecipient,
                                           PaymentAmount, Asset) ]
  /\ UNCHANGED << gateVars, client, session, registry >>

NextValidator ==
  \/ \E h \in TransactionHashes : CallValidatePayment(h)
  \/ \E reply \in VerifyReplies : VerifyReturns(reply)
  \/ \E outcome \in RpcOutcomes, expectedRecipient \in ExpectedRecipients :
       CallValidatePaymentOnChain(outcome, expectedRecipient)

SpecValidator == Init /\ [][NextValidator]_vars

\* ================================================================ claims
Arrived(r) == pc[r] # "idle"
Done(r) == pc[r] = "done"

\* the payload of a header that decodes to a JSON object
Decodes(h) == h.kind = "json"

\* the payload carries an authorization object
HasAuthorization(h) ==
  Decodes(h) /\ Has(h.value, "payload") /\ Has(h.value.payload, "authorization")

\* the nonce a header carries, Undefined when it carries none
NonceOf(h) ==
  IF HasAuthorization(h) THEN Get(h.value.payload.authorization, "nonce") ELSE Undefined

\* the facilitator returned a transaction hash for the request
Settled(r) == Truthy(transactionHash[r])

\* the request was answered 2xx
Succeeded(r) == Done(r) /\ response[r].status \in 200..299

\* the request is past the replay check and not yet answered
InFlight(r) == pc[r] \in { "awaitFacilitator", "awaitSentiment" }

\* the error strings of the validation and replay rejections
FormatErrors == { "Invalid payment format", "Invalid authorization" }
ReplayError == "Payment already used"

ErrorOf(reply) ==
  IF Has(reply, "body") /\ Has(reply.body, "error") THEN reply.body.error ELSE Undefined

RejectedAsReplay(r) ==
  Done(r) /\ response[r].status = 400 /\ ErrorOf(response[r]) = ReplayError

\* C1 (One-shot): for every nonce, at most one request carrying it is ever
\* answered 2xx, whatever the interleaving of the requests.
C1_OneShot ==
  \A n \in Nonces :
    Cardinality({ r \in Requests : Arrived(r) /\ NonceOf(header[r]) = n /\ Succeeded(r) }) <= 1

\* C2 (atomic test-and-set): two requests carrying the same nonce are never
\* both past the replay check at the same time; one of them got alreadyPresent.
C2_AtomicTestAndSet ==
  \A q, r \in Requests :
    (q # r /\ InFlight(q) /\ InFlight(r)) => NonceOf(header[q]) # NonceOf(header[r])

\* C3 (sequential replay): a request that arrives after a request with the
\* same nonce has completed with a settled payment is answered 400 at once,
\* as a replay when it has the fields the handler requires, with no
\* facilitator call and no resource invocation; an answered request makes
\* no further call.
C3_SequentialReplay ==
  [][ \A r \in Requests :
        /\ ( /\ ~Arrived(r)
             /\ pc'[r] # "idle"
             /\ NonceOf(header'[r]) \in Nonces
             /\ \E q \in Requests :
                  Done(q) /\ Settled(q) /\ NonceOf(header[q]) = NonceOf(header'[r]) )
           => /\ pc'[r] = "done"
              /\ response'[r].status = 400
              /\ HasRequiredFields(header'[r].value) => ErrorOf(response'[r]) = ReplayError
              /\ facilitatorCalls'[r] = 0
              /\ resourceCalls'[r] = 0
        /\ Done(r) => /\ pc'[r] = "done"
                      /\ facilitatorCalls'[r] = facilitatorCalls[r]
                      /\ resourceCalls'[r] = resourceCalls[r] ]_vars

C3_Witness ==
  \E q, r \in Requests :
    /\ q # r
    /\ Done(q) /\ Settled(q)
    /\ NonceOf(header[q]) \in Nonces
    /\ NonceOf(header[r]) = NonceOf(header[q])
    /\ RejectedAsReplay(r)
    /\ facilitatorCalls[r] = 0

\* the answers the handler gives when settlement fails for want of a usable
\* facilitator reply: 502, 402 after a 5xx status, 402 for a missing hash
FacilitatorUnavailable(r) ==
  /\ Done(r)
  /\ \/ response[r].status = 502
     \/ response[r].status = 402 /\ facilitatorStatus[r] \in 500..599
     \/ response[r].status = 402 /\ facilitatorStatus[r] \in 200..299

\* C4 (replay-rollback): when a request is answered with a facilitator
\* failure (5xx, network error, 2xx without hash), its nonce is not in the
\* replay store at that moment.
C4_ReplayRollback ==
  [][ \A r \in Requests :
        (~Done(r) /\ FacilitatorUnavailable(r)' /\ NonceOf(header[r]) \in Nonces)
          => NonceOf(header[r]) \notin processedPayments' ]_vars

\* C5 (no-settle-on-reject): a request answered with a format, authorization
\* or replay rejection made no facilitator call.
C5_NoSettleOnReject ==
  \A r \in Requests :
    (Done(r) /\ response[r].status = 400
       /\ ErrorOf(response[r]) \in FormatErrors \cup { ReplayError, "expired" })
      => facilitatorCalls[r] = 0

C5_Witness ==
  \E r \in Requests :
    /\ RejectedAsReplay(r)
    /\ NonceOf(header[r]) \in processedPayments
    /\ facilitatorCalls[r] = 0
    /\ \E q \in Requests : facilitatorCalls[q] = 1

\* C6 (challenge): a request without X-PAYMENT is answered 402 with the body
\* { x402Version: 1, methods: [configured method] } and changes nothing:
\* the replay store is as before, no facilitator call, no resource call.
C6_Challenge ==
  [][ \A r \in Requests :
        (~Arrived(r) /\ pc'[r] # "idle" /\ header'[r].kind = "absent")
          => /\ response'[r].status = 402
             /\ Has(response'[r].body, "x402Version")
             /\ response'[r].body.x402Version = 1
             /\ response'[r].body.methods = << Method >>
             /\ processedPayments' = processedPayments
             /\ facilitatorCalls'[r] = 0
             /\ resourceCalls'[r] = 0 ]_vars

\* the header's authorization has all six fields of an Authorization
HasAllAuthorizationFields(h) ==
  /\ HasAuthorization(h)
  /\ \A f \in { "from", "to", "value", "validAfter", "validBefore", "nonce" } :
       Has(h.value.payload.authorization, f)

\* the payload passes the structural validation the gate is specified to make
StructurallyValid(h) ==
  /\ Decodes(h)
  /\ Has(h.value, "x402Version") /\ h.value.x402Version = 1
  /\ Truthy(Get(h.value, "scheme"))
  /\ Truthy(Get(h.value, "network"))
  /\ Has(h.value, "payload")
  /\ Truthy(Get(h.value.payload, "signature"))
  /\ HasAllAuthorizationFields(h)

AuthorizationOf(h) == h.value.payload.authorization

\* C7 (expiry): a request whose authorization has validBefore <= now is
\* answered 400 "expired", with no facilitator call and no resource call.
C7_Expiry ==
  \A r \in Requests :
    (Arrived(r) /\ StructurallyValid(header[r]) /\ AuthorizationOf(header[r]).validBefore <= Now)
      => /\ Done(r)
         /\ response[r].status = 400
         /\ ErrorOf(response[r]) = "expired"
         /\ facilitatorCalls[r] = 0
         /\ resourceCalls[r] = 0

\* C8 (amount bound): a request whose authorization.value is above the
\* maximum or below the minimum amount is answered 400 as an invalid
\* authorization and never reaches the resource.
C8_AmountBound ==
  \A r \in Requests :
    ( /\ Arrived(r)
      /\ StructurallyValid(header[r])
      /\ \/ AuthorizationOf(header[r]).value > Method.maximumAmount
         \/ AuthorizationOf(header[r]).value < Method.minimumAmount )
      => /\ Done(r)
         /\ response[r].status = 400
         /\ ErrorOf(response[r]) = "Invalid authorization"
         /\ resourceCalls[r] = 0

\* C9 (payee and network): a request whose authorization.to is not the
\* configured recipient (compared without case) or whose network is not the
\* configured one is answered 400 as an invalid authorization, before the
\* replay check and before any facilitator call.
C9_PayeeAndNetwork ==
  \A r \in Requests :
    ( /\ Arrived(r)
      /\ StructurallyValid(header[r])
      /\ \/ ToLowerCase(AuthorizationOf(header[r]).to) # ToLowerCase(Method.recipient)
         \/ header[r].value.network # Method.network )
      => /\ Done(r)
         /\ response[r].status = 400
         /\ ErrorOf(response[r]) = "Invalid authorization"
         /\ facilitatorCalls[r] = 0

\* C10 (structural validation): a decoded payload that lacks a required
\* field is answered 400 as a format rejection with no facilitator call, and
\* no payload without a nonce ever puts a key into the replay store.
C10_StructuralValidation ==
  /\ \A r \in Requests :
       (Arrived(r) /\ Decodes(header[r]) /\ ~StructurallyValid(header[r]))
         => /\ Done(r)
            /\ response[r].status = 400
            /\ ErrorOf(response[r]) \in FormatErrors
            /\ facilitatorCalls[r] = 0
            /\ ~Settled(r)
  /\ Undefined \notin processedPayments

\* C11 (wire round-trip): the gate decodes both base64(JSON(S)) and raw
\* JSON(S) to S, so neither is answered as an undecodable header; a header
\* that is neither is answered 400 "Invalid payment format".
C11_WireRoundTrip ==
  \A r \in Requests :
    Arrived(r) =>
      /\ header[r].kind \in { "json", "base64" }
           => ~(Done(r) /\ ErrorOf(response[r]) = "Invalid payment format")
      /\ header[r].kind = "garbage"
           => /\ response[r].status = 400
              /\ ErrorOf(response[r]) = "Invalid payment format"

\* C12 (rollback on late failure): when a request that passed the replay
\* check is answered with a failure, its nonce is not in the replay store.
C12_RollbackOnLateFailure ==
  [][ \A r \in Requests :
        ( /\ InFlight(r)
          /\ Done(r)'
          /\ response'[r].status \notin 200..299
          /\ NonceOf(header[r]) \in Nonces )
          => NonceOf(header[r]) \notin processedPayments' ]_vars

\* C13 (receipt in the 2xx body): every 2xx response carries the resource's
\* own result fields and a payment object whose transactionHash is the hash
\* the facilitator returned for that request and whose status is "confirmed".
C13_PaymentInSuccessBody ==
  \A r \in Requests :
    Succeeded(r) =>
      LET body == response[r].body IN
        /\ \A f \in { "text", "sentiment", "confidence", "explanation", "payment" } : Has(body, f)
        /\ [ text |-> body.text, sentiment |-> body.sentiment,
             confidence |-> body.confidence, explanation |-> body.explanation ]
             \in SentimentResults(text[r])
        /\ body.payment.transactionHash = TxHash(r)
        /\ body.payment.status = "confirmed"

C13_Witness ==
  \E q, r \in Requests :
    /\ q # r
    /\ Succeeded(q) /\ Succeeded(r)
    /\ response[q].body.payment.transactionHash # response[r].body.payment.transactionHash

\* the request called the facilitator and was answered without settlement
FailedAtFacilitator(r) == Done(r) /\ facilitatorCalls[r] = 1 /\ ~Settled(r)

\* C14 (facilitator failure taxonomy): a 4xx reply is answered 402; a 5xx
\* reply, a network failure or a malformed reply is answered 502; a 2xx
\* reply without hash is answered with an error class of its own, different
\* from the class of an explicit rejection.
C14_FailureTaxonomy ==
  /\ \A r \in Requests :
       FailedAtFacilitator(r) =>
         /\ facilitatorStatus[r] \in 400..499 => response[r].status = 402
         /\ facilitatorStatus[r] \in 500..599 => response[r].status = 502
         /\ facilitatorStatus[r] = 0 => response[r].status = 502
  /\ \A q, r \in Requests :
       ( /\ FailedAtFacilitator(q) /\ facilitatorStatus[q] \in 400..499
         /\ FailedAtFacilitator(r) /\ facilitatorStatus[r] \in 200..299
         /\ response[r].status # 502 )
         => ErrorOf(response[q]) # ErrorOf(response[r])

\* C19 (response shape): every failure response has a body with an error
\* and a message, and no 2xx response has an error key.
C19_ResponseShape ==
  \A r \in Requests :
    Done(r) =>
      IF response[r].status \in 200..299
        THEN ~Has(response[r].body, "error")
        ELSE Has(response[r].body, "error") /\ Has(response[r].body, "message")

\* the error class of a failure response: its status and error string
SameClass(q, r) ==
  /\ Done(q) /\ Done(r)
  /\ response[q].status \notin 200..299
  /\ response[q].status = response[r].status
  /\ ErrorOf(response[q]) = ErrorOf(response[r])

\* C31 (no leakage): the body of a failure response is determined by its
\* error class; two requests that fail in the same class, whatever the text
\* of the exception or of the facilitator's reply behind it, get the same
\* body.
C31_NoLeakage ==
  \A q, r \in Requests : SameClass(q, r) => response[q].body = response[r].body

\* C32 (stage order): at the moment the handler calls the facilitator for a
\* request, the nonce of that request is in the replay store.
C32_LockedBeforeSettled ==
  [][ \A r \in Requests :
        facilitatorCalls'[r] > facilitatorCalls[r]
          => NonceOf(header'[r]) \in processedPayments' ]_vars

\* C33 (single response): a request is answered exactly when its handler has
\* finished, a response once sent is never replaced by another, and the
\* facilitator is called at most once for a request.
C33_SingleResponse ==
  /\ [] ( \A r \in Requests :
            /\ facilitatorCalls[r] <= 1
            /\ Done(r) <=> response[r] # NoResponse )
  /\ [][ \A r \in Requests :
           response[r] # NoResponse => response'[r] = response[r] ]_vars

\* every way of answering has been taken by some request: here a success
\* next to a facilitator failure
C33_Witness ==
  \E q, r \in Requests :
    /\ Succeeded(q) /\ facilitatorCalls[q] = 1
    /\ Done(r) /\ response[r].status = 502 /\ facilitatorCalls[r] = 1

\* C34 (no access without settlement): analyzeSentiment is invoked for a
\* request only after the facilitator answered that request's call 2xx with
\* a transaction hash, which the handler holds.
C34_NoAccessWithoutSettlement ==
  \A r \in Requests :
    resourceCalls[r] > 0
      => /\ facilitatorCalls[r] = 1
         /\ facilitatorStatus[r] \in 200..299
         /\ transactionHash[r] = TxHash(r)

\* the resource ran for one request and not for another whose settlement
\* gave no hash
C34_Witness ==
  \E q, r \in Requests :
    /\ resourceCalls[q] = 1
    /\ resourceCalls[r] = 0 /\ FailedAtFacilitator(r) /\ facilitatorStatus[r] = 200

\* the requests that carry nonce n and hold a transaction hash
SettledWith(n) ==
  { r \in Requests :
      /\ Arrived(r)
      /\ NonceOf(header[r]) = n
      /\ facilitatorStatus[r] \in 200..299
      /\ transactionHash[r] = TxHash(r) }

\* C35 (replay-store invariant): the store only grows; a nonce is in it only
\* if a request carrying it got a transaction hash from the facilitator; and
\* the step that answers a request which holds no hash leaves the store as it
\* was.
C35_ReplayStoreInvariant ==
  /\ [] ( \A n \in processedPayments : SettledWith(n) # {} )
  /\ [][ /\ processedPayments \subseteq processedPayments'
         /\ \A r \in Requests :
              ( ~Done(r) /\ Done(r)' /\ transactionHash'[r] # TxHash(r) )
                => processedPayments' = processedPayments ]_vars

\* two settled payments with different nonces are both in the store, and a
\* request has failed at the facilitator since
C35_Witness ==
  /\ Cardinality(processedPayments) = 2
  /\ \E r \in Requests : Done(r) /\ SettledWith(NonceOf(header[r])) # {}

\* ------------------------------------------------------ validator claims
Returned(fn) == validator.pc = "done" /\ validator.fn = fn

\* the facilitator replied 4xx, or 2xx without valid being true
ExplicitlyRejected(reply) ==
  /\ reply.kind = "response"
  /\ \/ reply.status \in 400..499
     \/ Ok(reply.status) /\ Get(reply.body, "valid") # "true"

\* the facilitator call threw or was answered with a non-2xx status
FacilitatorPathFailed(reply) ==
  \/ reply.kind = "throws"
  \/ reply.kind = "response" /\ ~Ok(reply.status)

\* C15 (rejection is terminal): once the facilitator rejects a payment
\* explicitly (any 4xx reply, or a 2xx reply whose valid is not true),
\* validatePayment returns false and consults no backend but the facilitator.
C15_RejectionTerminal ==
  ( Returned("validatePayment") /\ ExplicitlyRejected(validator.reply) )
    => /\ validator.result = FALSE
       /\ validator.consulted = { "facilitator" }

\* C16 (no format acceptance after a facilitator failure): when the
\* facilitator call throws or is answered with a non-2xx status,
\* validatePayment neither consults the format check nor returns true.
C16_NoFormatAfterFailure ==
  ( Returned("validatePayment") /\ FacilitatorPathFailed(validator.reply) )
    => /\ "format" \notin validator.consulted
       /\ validator.result = FALSE

\* C17 (format backend): validatePaymentFallback accepts its input exactly
\* when the input matches ^0x[0-9a-fA-F]+$ and is at least 10 characters
\* long.
C17_FormatBackend ==
  ( Returned("validatePayment") /\ "format" \in validator.consulted )
    => ( validator.result = TRUE
           <=> /\ IsValidHex(validator.transactionHash)
               /\ Len(validator.transactionHash) >= MinHashLength )

\* a Transfer log of the asset that pays the expected recipient enough
PaysRecipient(log, expectedRecipient) ==
  /\ log.topic0 = TransferTopic
  /\ ToLowerCase(log.address) = ToLowerCase(Asset)
  /\ ToLowerCase(log.to) = ToLowerCase(expectedRecipient)
  /\ log.amount >= PaymentAmount

ClientFetch(impl, options) ==
  /\ client = NoCall
  /\ client' = [ pc |-> "awaitFirst", impl |-> impl, options |-> options,
                 requests |-> << [ url |-> Url,
                                   method |-> options.method,
                                   headers |-> options.headers.names,
                                   body |-> options.body,
                                   xPayment |-> NoHeader ] >>,
                 signed |-> << >>,
                 lastTransaction |-> Null,
                 lastNetwork |-> Null ]
  /\ UNCHANGED << gateVars, validator, session, registry >>

Return(resp) == [ client EXCEPT !.pc = "returned" ] @@ [ returned |-> resp ]
Throw(e) == [ client EXCEPT !.pc = "threw" ] @@ [ thrown |-> e ]

\* The signer has built its message for the method and signTypedData threw:
\* X402Client catches, returns null and fetch throws its own error; in the
\* other two clients the exception leaves fetch.
SigningFails(method, nonce) ==
  Throw(IF client.impl = "X402Client"
          THEN "Failed to create payment authorization"
          ELSE "underflow")
    @@ [ method |-> method, message |-> Message(method, nonce) ]

\* The paid request for a method: sign once, reissue the request with the
\* header added.
Retry(method, nonce) ==
  [ client EXCEPT
      !.pc = "awaitRetry",
      !.signed = Append(@, Signed(client.impl, method, nonce)),
      !.lastNetwork = IF client.impl = "X402ServerClient"
                        THEN [ network |-> Get(method, "network") ]
                        ELSE @,
      !.requests =
        Append(@, [ url |-> Url,
                    method |-> client.options.method,
                    headers |-> Spread(client.options.headers) \cup { "X-PAYMENT" },
                    body |-> client.options.body,
                    xPayment |-> PaymentHeader(client.impl,
                                   SignedFor(client.impl, method, nonce)) ]) ]
    @@ [ method |-> method, message |-> Message(method, nonce) ]

\* fault injection: a 400 answer is taken for a payment request as well
PaymentRequiredOrBadRequest(resp) == resp.status \in { 400, 402 }

\* response.status === 402
PaymentRequired(resp) == resp.status = 402

\* The first response arrives.
FirstResponds(resp, nonce) ==
  /\ client.pc = "awaitFirst"
  /\ client' =
       IF ~PaymentRequired(resp)
         THEN Return(resp)
         ELSE IF ~Parses(resp.body)
                THEN Throw("SyntaxError")
                ELSE IF Threw(FirstMethod(client.impl, resp.body))
                       THEN Throw("TypeError")
                       ELSE IF Signable(Message(ChosenMethod(client.impl, resp.body),
                                                nonce))
                              THEN Retry(ChosenMethod(client.impl, resp.body), nonce)
                              ELSE SigningFails(ChosenMethod(client.impl, resp.body),
                                                nonce)
  /\ UNCHANGED << gateVars, validator, session, registry >>

\* The response to the paid request arrives.
RetryResponds(resp) ==
  /\ client.pc = "awaitRetry"
  /\ client' =
       IF client.impl = "X402Client"
         THEN IF Ok(resp.status)
                THEN IF ~Parses(resp.body)
                       THEN Throw("SyntaxError")
                       ELSE [ Return([ status |-> resp.status, body |-> resp.body ])
                                EXCEPT !.lastTransaction =
                                         LastTransaction(resp.body, client.method) ]
                ELSE Return(resp)
         ELSE IF client.impl = "X402ServerClient" /\ Ok(resp.status)
                THEN [ Return(resp) EXCEPT !.lastTransaction =
                                             LastTransactionHash(resp.body) ]
                ELSE Return(resp)
  /\ UNCHANGED << gateVars, validator, session, registry >>

\* fetch rejects: the exception leaves client.fetch.
RequestFails ==
  /\ client.pc \in { "awaitFirst", "awaitRetry" }
  /\ client' = Throw("network error")
  /\ UNCHANGED << gateVars, validator, session, registry >>

NextClient ==
  \/ \E impl \in Clients, options \in FetchOptions : ClientFetch(impl, options)
  \/ \E resp \in ServerResponses, nonce \in Nonces : FirstResponds(resp, nonce)
  \/ \E resp \in ServerResponses : RetryResponds(resp)
  \/ RequestFails

SpecClient == Init /\ [][NextClient]_vars

\* --------------------------------------------------------- client claims
\* C20 (pass-through): when the first response has a status other than 402,
\* client.fetch returns that response, has sent the one request as given,
\* without X-PAYMENT, and has signed nothing.
C20_PassThrough ==
  [][ \A resp \in ServerResponses, nonce \in Nonces :
        ( FirstResponds(resp, nonce) /\ resp.status # 402 )
          => /\ client'.pc = "returned"
             /\ client'.returned = resp
             /\ Len(client'.requests) = 1
             /\ client'.requests[1].headers = client.options.headers.names
             /\ client'.requests[1].xPayment = NoHeader
             /\ client'.signed = << >> ]_vars

\* X402ServerClient has returned a first response of status 500
C20_Witness ==
  /\ client.pc = "returned"
  /\ Len(client.requests) = 1
  /\ client.returned.status = 500
  /\ client.impl = "X402ServerClient"

\* the call has sent its paid request
Paid == client.pc \in { "awaitRetry", "returned", "threw" } /\ Len(client.requests) = 2

\* C21 (single paid attempt): one call sends at most two requests and signs
\* at most once, and the second request is the first one (same URL, method
\* and body) with the header X-PAYMENT added to the original headers.
C21_SinglePaidAttempt ==
  client.pc # "idle" =>
    /\ Len(client.requests) <= 2
    /\ Len(client.signed) <= 1
    /\ Len(client.requests) = 2 =>
         /\ client.requests[2].url = client.requests[1].url
         /\ client.requests[2].method = client.requests[1].method
         /\ client.requests[2].body = client.requests[1].body
         /\ client.requests[2].headers = client.requests[1].headers \cup { "X-PAYMENT" }
         /\ client.requests[2].xPayment # NoHeader

\* C22 (second 402 is terminal): when the paid request is answered 402, the
\* call ends with the error payment-not-accepted and not with a returned
\* response.
C22_SecondChallengeTerminal ==
  [][ \A resp \in ServerResponses :
        ( RetryResponds(resp) /\ resp.status = 402 )
          => /\ client'.pc = "threw"
             /\ client'.thrown = "payment-not-accepted" ]_vars

\* the methods a parsed 402 body lists, under either name
ListedMethods(body) ==
  IF Has(body, "methods") THEN body.methods
    ELSE IF Has(body, "accepts") THEN body.accepts ELSE << >>

IsChallenge(body) == Parses(body) /\ (Has(body, "methods") \/ Has(body, "accepts"))

Eligible(body) ==
  { i \in 1..Len(ListedMethods(body)) : ListedMethods(body)[i].network \in DOMAIN chainIds }

FirstEligible(body) ==
  ListedMethods(body)[CHOOSE i \in Eligible(body) : \A j \in Eligible(body) : i <= j]

\* C23 (method selection): on a 402 the client signs for the first listed
\* method whose network has a chain id; on a body that is no challenge, and
\* on a challenge without such a method, the call fails, nothing is signed
\* and no paid request is sent. (The failure is any exception: the names
\* bad-challenge and no-acceptable-method are not required here.)
C23_MethodSelection ==
  [][ \A resp \in ServerResponses, nonce \in Nonces :
        ( FirstResponds(resp, nonce) /\ resp.status = 402 )
          => IF ~IsChallenge(resp.body) \/ Eligible(resp.body) = {}
               THEN /\ client'.pc = "threw"
                    /\ client'.signed = << >>
                    /\ Len(client'.requests) = 1
               ELSE Has(client', "method") =>
                      client'.method.network = FirstEligible(resp.body).network ]_vars

\* C24 (chain id): whenever a client has signed for a method whose network
\* is one of ethereum, sepolia, base, base-sepolia, polygon, arbitrum and
\* optimism, the chainId of the signed domain is the table's (1, 11155111,
\* 8453, 84532, 137, 42161, 10; the table of getChainId).
C24_ChainIdResolution ==
  ( client.pc # "idle" /\ Len(client.signed) = 1
      /\ client.method.network \in DOMAIN chainIds )
    => client.signed[1].domain.chainId = chainIds[client.method.network]

\* C25 (validity window): the message the signer builds has validAfter the
\* current second and validBefore later by timeout/1000 seconds (by 300
\* without a timeout), both of them whole numbers with validBefore greater.
C25_ValidityWindow ==
  ( client.pc # "idle" /\ Has(client, "message") )
    => /\ client.message.validAfter = Number(Now)
       /\ client.message.validBefore - client.message.validAfter
            = IF Has(client.method, "timeout")
                THEN client.method.timeout
                ELSE Number(DefaultValiditySeconds)
       /\ client.message.validBefore > client.message.validAfter
       /\ IsInteger(client.message.validAfter)
       /\ IsInteger(client.message.validBefore)
       /\ client.message.validAfter >= 0

\* the payload of the paid request
Emitted == client.requests[2].xPayment.value

\* C26 (signed equals sent): the payload of the paid request names the
\* chosen method's scheme and network with x402Version 1, and its
\* authorization carries the signed message: from the wallet, to the
\* recipient, the maximum amount, the signed nonce, and the two signed times
\* as decimal strings.
C26_SignedEqualsSent ==
  Paid =>
    /\ Emitted.x402Version = 1
    /\ Emitted.scheme = client.method.scheme
    /\ Emitted.network = client.method.network
    /\ Has(Emitted.payload, "authorization")
    /\ Emitted.payload.authorization.from = Wallet
    /\ Emitted.payload.authorization.from = client.signed[1].message.from
    /\ Emitted.payload.authorization.to = client.method.recipient
    /\ Emitted.payload.authorization.to = client.signed[1].message.to
    /\ Emitted.payload.authorization.value = client.method.maximumAmount
    /\ Emitted.payload.authorization.value = client.signed[1].message.value
    /\ Emitted.payload.authorization.nonce = client.signed[1].message.nonce
    /\ Emitted.payload.authorization.validAfter
         = NumberToString(client.signed[1].message.validAfter)
    /\ Emitted.payload.authorization.validBefore
         = NumberToString(client.signed[1].message.validBefore)

\* C27 (alias normalization): the challenge written with accepts,
\* maxAmountRequired, payTo and maxTimeoutSeconds leads to a signed message
\* with the same to, value and window length as the challenge written with
\* methods, maximumAmount, recipient and timeout.
C27_AliasNormalization ==
  [][ \A resp \in ServerResponses, nonce \in Nonces :
        ( FirstResponds(resp, nonce) /\ resp.status = 402
            /\ resp.body = [ accepts |-> << AcceptsMethod >> ] )
          => /\ client'.pc = "awaitRetry"
             /\ client'.message.to = Message(Method, nonce).to
             /\ client'.message.value = Message(Method, nonce).value
             /\ client'.message.validBefore - client'.message.validAfter
                  = Message(Method, nonce).validBefore
                      - Message(Method, nonce).validAfter ]_vars

\* the transaction hash a body carries at top level, under payment or under
\* _transaction
BodyHash(body) ==
  IF ~Parses(body) THEN Undefined
    ELSE IF Has(body, "transactionHash") THEN body.transactionHash
    ELSE IF Has(body, "payment") /\ Has(body.payment, "transactionHash")
           THEN body.payment.transactionHash
    ELSE IF Has(body, "_transaction") /\ Has(body._transaction, "transactionHash")
           THEN body._transaction.transactionHash
    ELSE Undefined

\* the hash the client holds as its last settlement
RecordedHash ==
  IF Has(client.lastTransaction, "transactionHash")
    THEN client.lastTransaction.transactionHash
    ELSE IF Has(client.lastTransaction, "hash")
           THEN client.lastTransaction.hash
           ELSE Undefined

\* C28 (last settlement): after the call has returned, the last settlement
\* is the hash of the paid request's 2xx body when that body carries one,
\* and null otherwise (no payment, no 2xx, no hash).
C28_LastSettlement ==
  client.pc = "returned" =>
    RecordedHash = IF Len(client.requests) = 2 /\ Ok(client.returned.status)
                     THEN BodyHash(client.returned.body)
                     ELSE Undefined

\* ------------------------------------------------ shared client processes
\* new X402Client(...) / new X402ServerClient(...) / new X402BrowserClient(...)
Construct(impl) ==
  /\ session = NoClient
  /\ session' = [ impl |-> impl,
                  calls |-> [ c \in Calls |-> NotStarted ],
                  issued |-> {},
                  lastTransaction |-> Null,
                  lastNetwork |-> Null ]
  /\ UNCHANGED << gateVars, validator, client, registry >>

\* Call c of fetch starts on the shared client: X402Client and
\* X402ServerClient reset the fields of the object, then the request is sent.
StartFetch(c) ==
  /\ session # NoClient
  /\ session.calls[c].pc = "idle"
  /\ session' =
       [ session EXCEPT
           !.lastTransaction = IF session.impl = "X402BrowserClient" THEN @ ELSE Null,
           !.lastNetwork = IF session.impl = "X402ServerClient" THEN Null ELSE @,
           !.calls[c] = [ pc |-> "awaitFirst",
                          requests |-> << [ id |-> << c, 1 >>, xPayment |-> NoHeader ] >>,
                          signed |-> << >> ] ]
  /\ UNCHANGED << gateVars, validator, client, registry >>

\* The first response of call c arrives; on a 402 the call signs with a
\* nonce it draws and sends its paid request.
FirstAnswer(c, resp, nonce) ==
  /\ session # NoClient
  /\ session.calls[c].pc = "awaitFirst"
  /\ session' =
       IF ~PaymentRequired(resp)
         THEN [ session EXCEPT !.calls[c] =
                  [ @ EXCEPT !.pc = "returned" ] @@ [ returned |-> resp ] ]
         ELSE [ session EXCEPT
                  !.issued = @ \cup { nonce },
                  !.lastNetwork =
                     IF session.impl = "X402ServerClient"
                       THEN [ network |-> ChosenMethod(session.impl, resp.body).network ]
                       ELSE @,
                  !.calls[c] =
                     [ @ EXCEPT
                         !.pc = "awaitRetry",
                         !.signed = Append(@, Signed(session.impl,
                                                     ChosenMethod(session.impl, resp.body),
                                                     nonce)),
                         !.requests =
                            Append(@, [ id |-> << c, 2 >>,
                                        xPayment |->
                                          PaymentHeader(session.impl,
                                            SignedFor(session.impl,
                                                      ChosenMethod(session.impl, resp.body),
                                                      nonce)) ]) ]
                       @@ [ method |-> ChosenMethod(session.impl, resp.body) ] ]
  /\ UNCHANGED << gateVars, validator, client, registry >>

\* The response to the paid request of call c arrives: the hash is written
\* to the shared object and the response is returned.
RetryAnswer(c, resp) ==
  /\ session # NoClient
  /\ session.calls[c].pc = "awaitRetry"
  /\ session' =
       [ session EXCEPT
           !.lastTransaction =
              IF ~Ok(resp.status) \/ session.impl = "X402BrowserClient"
                THEN @
                ELSE IF session.impl = "X402Client"
                       THEN IF LastTransaction(resp.body, session.calls[c].method) # Null
                              THEN LastTransaction(resp.body, session.calls[c].method)
                              ELSE @
                       ELSE IF LastTransactionHash(resp.body) # Null
                              THEN LastTransactionHash(resp.body)
                              ELSE @,
           !.calls[c] = [ @ EXCEPT !.pc = "returned" ] @@ [ returned |-> resp ] ]
  /\ UNCHANGED << gateVars, validator, client, registry >>

\* A fetch of call c rejects: the exception leaves that call.
CallFails(c) ==
  /\ session # NoClient
  /\ session.calls[c].pc \in { "awaitFirst", "awaitRetry" }
  /\ session' = [ session EXCEPT !.calls[c] =
                    [ @ EXCEPT !.pc = "threw" ] @@ [ thrown |-> "network error" ] ]
  /\ UNCHANGED << gateVars, validator, client, registry >>

\* the nonces the calls on the client have drawn so far
Issued == IF session = NoClient THEN {} ELSE session.issued

NextShared ==
  \/ \E impl \in Clients : Construct(impl)
  \/ \E c \in Calls : StartFetch(c)
  \/ \E c \in Calls : \E resp \in AnswersTo(c, 1), nonce \in FreshNonces(Issued) :
       FirstAnswer(c, resp, nonce)
  \/ \E c \in Calls : \E resp \in AnswersTo(c, 2) : RetryAnswer(c, resp)
  \/ \E c \in Calls : CallFails(c)

SpecShared == Init /\ [][NextShared]_vars

\* ------------------------------------------------- shared client claims
HasSigned(c) == session.calls[c].pc # "idle" /\ Len(session.calls[c].signed) = 1
NonceOfCall(c) == session.calls[c].signed[1].message.nonce

NoResult == [ pending |-> TRUE ]

\* JSON.stringify({ error: error.message, tool: tool.name })
ErrorResult(message, name) == [ error |-> message, tool |-> name ]

\* JSON.stringify(result)
PlainResult == [ ok |-> TRUE ]

\* JSON.stringify({ ...result, payment: { transactionHash, network, explorerUrl } })
PaidResult(tx) ==
  [ ok |-> TRUE,
    payment |-> [ transactionHash |-> tx.transactionHash, network |-> tx.network ] ]

RegisteredNames == { registry.registered[i].name : i \in 1..Len(registry.registered) }

\* toolRegistry.registerTool(config)
RegisterTool(config) ==
  /\ Len(registry.registered) < MaxRegistrations
  /\ registry' = [ registry EXCEPT !.tools = MapSet(@, config),
                                   !.registered = Append(@, config) ]
  /\ UNCHANGED << gateVars, validator, client, session >>

\* toolRegistry.clear()
Clear ==
  /\ registry' = [ registry EXCEPT !.tools = << >>, !.registered = << >> ]
  /\ UNCHANGED << gateVars, validator, client, session >>

RECURSIVE RegisterAll(_, _)
RegisterAll(map, configs) ==
  IF configs = << >>
    THEN map
    ELSE RegisterAll(MapSet(map, Head(configs)), Tail(configs))

\* initializePredefinedTools(), called once when the agent starts
InitializePredefinedTools ==
  /\ registry.registered = << >>
  /\ registry' = [ registry EXCEPT !.tools = RegisterAll(@, PredefinedTools),
                                   !.registered = @ \o PredefinedTools ]
  /\ UNCHANGED << gateVars, validator, client, session >>

\* toolRegistry.initialize(x402Client) with the agent's one client object,
\* whose lastTransaction is null after construction
Initialize ==
  /\ registry.x402Client = Null
  /\ registry' = [ registry EXCEPT !.x402Client = [ lastTransaction |-> Null ] ]
  /\ UNCHANGED << gateVars, validator, client, session >>

\* The func of a LangChain tool is called: executeTool runs up to the first
\* await of the tool's execute function, or to the throw that func catches.
\* A call of X402Client.fetch resets lastTransaction before its first await.
Invoke(k, name, params) ==
  /\ registry.calls[k].pc = "idle"
  /\ \A j \in Calls : j < k => registry.calls[j].pc # "idle"
  /\ LET tool == MapGet(registry.tools, name)
         step == executeTool(tool, params, registry.x402Client)
         call == [ pc |-> "done", name |-> name, params |-> params,
                   known |-> name \in RegisteredNames, tool |-> tool,
                   hadClient |-> registry.x402Client # Null,
                   httpRequests |-> 0, authorizations |-> 0,
                   settled |-> Undefined, result |-> NoResult ]
     IN IF Has(step, "threw")
          THEN registry' = [ registry EXCEPT !.calls[k] =
                   [ call EXCEPT !.result = ErrorResult(step.threw, name) ] ]
          ELSE IF step = CallsX402Fetch
                 THEN registry' = [ registry EXCEPT
                          !.x402Client.lastTransaction = Null,
                          !.calls[k] = [ call EXCEPT !.pc = "awaitFirst",
                                                     !.httpRequests = 1 ] ]
                 ELSE registry' = [ registry EXCEPT !.calls[k] =
                          [ call EXCEPT !.pc = "awaitPlain", !.httpRequests = 1 ] ]
  /\ UNCHANGED << gateVars, validator, client, session >>

\* The first request of X402Client.fetch is answered.  402: the client signs
\* an authorization and sends the request again.  Otherwise fetch returns the
\* response and execute throws unless response.ok.
ToolFirstResponds(k, status) ==
  /\ registry.calls[k].pc = "awaitFirst"
  /\ LET call == registry.calls[k]
     IN registry' = [ registry EXCEPT !.calls[k] =
          IF status = 402
            THEN [ call EXCEPT !.pc = "awaitRetry",
                               !.authorizations = @ + 1,
                               !.httpRequests = @ + 1 ]
            ELSE IF status \in 200..299
                   THEN [ call EXCEPT !.pc = "awaitResult" ]
                   ELSE [ call EXCEPT !.pc = "done",
                            !.result = ErrorResult("API call failed", call.name) ] ]
  /\ UNCHANGED << gateVars, validator, client, session >>

\* The paid request is answered: "settled" is a 2xx whose body carries
\* payment.transactionHash, "ok" a 2xx without it, "refused" any other status.
ToolRetryResponds(k, answer) ==
  /\ registry.calls[k].pc = "awaitRetry"
  /\ LET call == registry.calls[k]
     IN CASE answer = "settled" ->
               registry' = [ registry EXCEPT
                 !.x402Client.lastTransaction =
                    [ success |-> TRUE, transactionHash |-> TxHash(k),
                      network |-> Network ],
                 !.calls[k] = [ call EXCEPT !.pc = "awaitResult",
                                            !.settled = TxHash(k) ] ]
          [] answer = "ok" ->
               registry' = [ registry EXCEPT
                 !.calls[k] = [ call EXCEPT !.pc = "awaitResult" ] ]
          [] OTHER ->
               registry' = [ registry EXCEPT
                 !.calls[k] = [ call EXCEPT !.pc = "done",
                     !.result = ErrorResult("API call failed", call.name) ] ]
  /\ UNCHANGED << gateVars, validator, client, session >>

\* The request a tool made with the global fetch is answered.
PlainResponds(k, ok) ==
  /\ registry.calls[k].pc = "awaitPlain"
  /\ LET call == registry.calls[k]
     IN registry' = [ registry EXCEPT !.calls[k] =
          IF ok
            THEN [ call EXCEPT !.pc = "awaitResult" ]
            ELSE [ call EXCEPT !.pc = "done",
                     !.result = ErrorResult("API call failed", call.name) ] ]
  /\ UNCHANGED << gateVars, validator, client, session >>

\* A request of the call rejects: the error reaches the catch of func.
CallRejects(k) ==
  /\ registry.calls[k].pc \in { "awaitFirst", "awaitRetry", "awaitPlain" }
  /\ LET call == registry.calls[k]
     IN registry' = [ registry EXCEPT !.calls[k] =
          [ call EXCEPT !.pc = "done",
                        !.result = ErrorResult("fetch failed", call.name) ] ]
  /\ UNCHANGED << gateVars, validator, client, session >>

\* executeTool has resolved: func reads this.x402Client.lastTransaction and
\* returns the result, with a payment block when that transaction has a hash.
ReturnResult(k) ==
  /\ registry.calls[k].pc = "awaitResult"
  /\ LET call == registry.calls[k]
         c == registry.x402Client
         attach == /\ call.tool.isPaid
                   /\ c # Null
                   /\ c.lastTransaction # Null
                   /\ c.lastTransaction.success
                   /\ Truthy(c.lastTransaction.transactionHash)
     IN registry' = [ registry EXCEPT !.calls[k] =
          [ call EXCEPT !.pc = "done",
              !.result = IF attach THEN PaidResult(c.lastTransaction)
                                   ELSE PlainResult ] ]
  /\ UNCHANGED << gateVars, validator, client, session >>

NextRegistry ==
  \/ \E config \in ToolConfigs : RegisterTool(config)
  \/ Clear

SpecRegistry == Init /\ [][NextRegistry]_vars

NextTools ==
  \/ Initialize
  \/ InitializePredefinedTools
  \/ \E k \in Calls, name \in AskedNames, params \in ToolParams :
       Invoke(k, name, params)
  \/ \E k \in Calls, status \in { 200, 402, 500 } : ToolFirstResponds(k, status)
  \/ \E k \in Calls, answer \in { "settled", "ok", "refused" } :
       ToolRetryResponds(k, answer)
  \/ \E k \in Calls, ok \in BOOLEAN : PlainResponds(k, ok)
  \/ \E k \in Calls : CallRejects(k)
  \/ \E k \in Calls : ReturnResult(k)

SpecTools == Init /\ [][NextTools]_vars

\* ---------------------------------------------------- tool registry claims
CallStarted(k) == registry.calls[k].pc # "idle"

CallReturned(k) == registry.calls[k].pc = "done"

PaymentAttached(k) == CallReturned(k) /\ Has(registry.calls[k].result, "payment")

CallFailed(k) == CallReturned(k) /\ Has(registry.calls[k].result, "error")

\* C36: the payment block attached to the result of a paid tool call carries
\* the transaction hash that the same call settled.
C36_ReceiptAttribution ==
  \A k \in Calls :
    PaymentAttached(k) =>
      registry.calls[k].result.payment.transactionHash = registry.calls[k].settled

\* C37: a call of executeTool with an unregistered name ends with 'Tool not
\* found', one with parameters the schema rejects ends with the schema's
\* error, and neither sends an HTTP request or signs an authorization.
C37_FailsBeforeWork ==
  \A k \in Calls :
    (CallStarted(k) /\ (~registry.calls[k].known \/ registry.calls[k].params = "invalid"))
      => /\ CallFailed(k)
         /\ registry.calls[k].result.error =
              IF registry.calls[k].known THEN "ZodError" ELSE "Tool not found"
         /\ registry.calls[k].httpRequests = 0
         /\ registry.calls[k].authorizations = 0

\* both refusals have happened while the registry holds tools and a client
C37_Witness ==
  /\ registry.x402Client # Null
  /\ registry.tools # << >>
  /\ \E j, k \in Calls :
       /\ CallFailed(j) /\ registry.calls[j].result.error = "Tool not found"
       /\ CallFailed(k) /\ registry.calls[k].result.error = "ZodError"
       /\ registry.calls[k].tool.isPaid

\* C38: a call of a registered paid tool made while the registry has no
\* client ends in an error without sending any HTTP request.
C38_NoClientNoRequest ==
  \A k \in Calls :
    (CallStarted(k) /\ registry.calls[k].known /\ ~registry.calls[k].hadClient
       /\ registry.calls[k].name \in { "generate_image", "sentiment_analysis",
                                       "research_company" })
      => /\ CallFailed(k)
         /\ registry.calls[k].httpRequests = 0
         /\ registry.calls[k].authorizations = 0

\* a registerPaidAPI tool and a predefined paid tool were both called with
\* valid parameters and no client, and both threw their own error
C38_Witness ==
  /\ registry.x402Client = Null
  /\ \E j, k \in Calls :
       /\ CallFailed(j) /\ registry.calls[j].result.error = "x402 client not initialized"
       /\ CallFailed(k) /\ registry.calls[k].result.error = "x402 client required"

\* the most recent registration under a name since the last clear
LatestRegistration(name) ==
  LET log == registry.registered
      at == { i \in 1..Len(log) : log[i].name = name }
  IN IF at = {} THEN NoTool
     ELSE log[CHOOSE i \in at : \A j \in at : j <= i]

\* what a name contributes to a cost: the cost of its most recent
\* registration when that is a paid tool that declares one, otherwise 0
Contribution(name) ==
  LET config == LatestRegistration(name)
  IN IF config = NoTool THEN 0
     ELSE IF config.isPaid /\ Has(config, "cost") THEN config.cost ELSE 0

RECURSIVE SumOfContributions(_)
SumOfContributions(names) ==
  IF names = << >> THEN 0
  ELSE Contribution(Head(names)) + SumOfContributions(Tail(names))

\* C39: count() is the number of distinct names registered since the last
\* clear, getTool(name) is the most recent registration under the name, and
\* calculateCost(names) is the sum of the costs of the listed names that are
\* registered paid tools.
C39_Bookkeeping ==
  /\ count(registry.tools) = Cardinality(RegisteredNames)
  /\ \A name \in AskedNames :
       getTool(registry.tools, name) = LatestRegistration(name)
  /\ \A names \in NameLists :
       calculateCost(registry.tools, names) = SumOfContributions(names)

\* a name was registered twice with different configs, and a list that names
\* it, a free tool and an unknown tool has a positive cost
C39_Witness ==
  /\ \E i, j \in 1..Len(registry.registered) :
       /\ i < j
       /\ registry.registered[i].name = registry.registered[j].name
       /\ registry.registered[i] # registry.registered[j]
  /\ count(registry.tools) = 2
  /\ \E names \in NameLists : calculateCost(registry.tools, names) > 0

\* ------------------------------------------------------- bounded waiting
\* The gate where every awaited call but the facilitator's settles: the
\* handler has no timer and passes no signal to fetch(facilitatorUrl), so
\* nothing obliges the step after that await to happen.
SpecQuietFacilitator ==
  /\ Init
  /\ [][Next]_vars
  /\ \A r \in Requests :
       /\ WF_vars(\E result \in SentimentResults(text[r]) : SentimentResolves(r, result))
       /\ WF_vars(SentimentRejects(r))

\* C30 (bounded external calls): a request that has reached the facilitator
\* call is eventually answered, whether or not the facilitator replies.
C30_BoundedExternalCalls ==
  \A r \in Requests : (pc[r] = "awaitFacilitator") ~> Done(r)

====
